---- MODULE Spec2Model ----
(***************************************************************************)
(* Model of homework.py: the fitness tracker module.                       *)
(*                                                                         *)
(* Numbers.  Python floats are modelled as exact rationals [n, d] in       *)
(* lowest terms (d > 0); every arithmetic operator of the source is the    *)
(* exact operation, so "equal" here means "equal up to floating-point      *)
(* rounding" in the program.  Division by zero raises ZeroDivisionError as *)
(* Python's float division does.                                           *)
(*                                                                         *)
(* Text.  A string is a sequence of pieces whose concatenation is the      *)
(* string.  A csv field and a formatted number are split into one piece    *)
(* per character; a literal of the message template is one piece per       *)
(* label, unit and separator.  The Cyrillic literals of the source are     *)
(* written in Latin transliteration, piece by piece:                       *)
(*   "Tip trenirovki: " "Dlitel'nost': " " ch." "Distantsiya: " " km."     *)
(*   "Sr. skorost': " " km/ch" "Potracheno kkal: "                         *)
(*   "Nepravil'nye vkhodnye dannye: "                                      *)
(* Punctuation and spacing are kept exactly as in the source.              *)
(***************************************************************************)
EXTENDS Integers, Sequences, FiniteSets, TLC

VARIABLES packages, idx, pc, workout_type, data, args, training, info, out, exc

vars == <<packages, idx, pc, workout_type, data, args, training, info, out, exc>>

(***************************************************************************)
(* Bounds of the model.                                                    *)
(***************************************************************************)
MaxRows == 2
MaxFields == 6

(***************************************************************************)
(* Exact rational arithmetic standing for float arithmetic.                *)
(***************************************************************************)
Abs(x) == IF x < 0 THEN -x ELSE x

RECURSIVE GCD(_, _)
GCD(a, b) == IF b = 0 THEN a ELSE GCD(b, a % b)

Norm(n, d) ==
    LET g == GCD(Abs(n), d)
    IN  [n |-> n \div g, d |-> d \div g]

R(n, d) == Norm(n, d)

RMul(a, b) ==
    LET g1 == GCD(Abs(a.n), b.d)
        g2 == GCD(Abs(b.n), a.d)
    IN  [n |-> (a.n \div g1) * (b.n \div g2), d |-> (a.d \div g2) * (b.d \div g1)]

RAdd(a, b) ==
    LET g == GCD(a.d, b.d)
    IN  Norm(a.n * (b.d \div g) + b.n * (a.d \div g), (a.d \div g) * b.d)

\* a / b for b # 0
RDiv(a, b) ==
    RMul(a, IF b.n < 0 THEN [n |-> -b.d, d |-> -b.n] ELSE [n |-> b.d, d |-> b.n])

RLess(a, b) == a.n * b.d < b.n * a.d

(***************************************************************************)
(* Results of calls: a value, or a raised exception.                       *)
(***************************************************************************)
Ok(v) == [ok |-> TRUE, v |-> v]
Raise(e, m) == [ok |-> FALSE, exc |-> e, msg |-> m]

None == [cls |-> "None"]

(***************************************************************************)
(* Class constants.                                                        *)
(***************************************************************************)
M_IN_KM == R(1000, 1)
MIN_IN_H == R(60, 1)
\* the attribute of Training alone, had Swimming not overridden it
LEN_STEP_not_overridden(cls) == R(65, 100)

\* LEN_STEP is looked up on the instance: Swimming overrides the attribute
\* of Training, the other classes inherit it.
LEN_STEP(cls) == IF cls = "Swimming" THEN R(138, 100) ELSE R(65, 100)
CALORIES_MEAN_SPEED_MULTIPLIER == R(18, 1)
RUN_CALORIES_MEAN_SPEED_SHIFT == R(179, 100)
CALORIES_WEIGHT_MULTIPLIER == R(35, 1000)
CALORIES_SPEED_HEIGHT_MULTIPLIER == R(29, 1000)
KMH_IN_MSEC == R(278, 1000)
CM_IN_M == R(100, 1)
SWM_CALORIES_MEAN_SPEED_SHIFT == R(11, 10)
CALORIES_MULTIPLIER == R(2, 1)

(***************************************************************************)
(* Training and its subclasses.                                            *)
(***************************************************************************)
\* Training.get_distance
get_distance(t) == RDiv(RMul(t.action, LEN_STEP(t.cls)), M_IN_KM)

\* Swimming.get_mean_speed
Swimming_get_mean_speed(t) ==
    IF t.duration.n = 0
    THEN Raise("ZeroDivisionError", <<"float division by zero">>)
    ELSE Ok(RDiv(RDiv(RMul(t.length_pool, t.count_pool), M_IN_KM), t.duration))

\* Training.get_mean_speed
Training_get_mean_speed(t) ==
    IF t.duration.n = 0
    THEN Raise("ZeroDivisionError", <<"float division by zero">>)
    ELSE Ok(RDiv(get_distance(t), t.duration))

\* the base method alone, had Swimming not overridden it
get_mean_speed_not_overridden(t) == Training_get_mean_speed(t)

\* method resolution of get_mean_speed
get_mean_speed(t) ==
    IF t.cls = "Swimming" THEN Swimming_get_mean_speed(t) ELSE Training_get_mean_speed(t)

\* Running.get_spent_calories with the shift subtracted
Running_get_spent_calories_shift_subtracted(t) ==
    LET s == get_mean_speed(t)
    IN  IF ~s.ok THEN s
        ELSE Ok(RMul(RMul(RDiv(RMul(RAdd(RMul(CALORIES_MEAN_SPEED_MULTIPLIER, s.v),
                                         RMul(R(-1, 1), RUN_CALORIES_MEAN_SPEED_SHIFT)),
                                    t.weight),
                               M_IN_KM),
                          t.duration),
                     MIN_IN_H))

\* Running.get_spent_calories
Running_get_spent_calories(t) ==
    LET s == get_mean_speed(t)
    IN  IF ~s.ok THEN s
        ELSE Ok(RMul(RMul(RDiv(RMul(RAdd(RMul(CALORIES_MEAN_SPEED_MULTIPLIER, s.v),
                                         RUN_CALORIES_MEAN_SPEED_SHIFT),
                                    t.weight),
                               M_IN_KM),
                          t.duration),
                     MIN_IN_H))

\* SportsWalking.get_spent_calories
SportsWalking_get_spent_calories(t) ==
    LET s == get_mean_speed(t)
    IN  IF ~s.ok THEN s
        ELSE LET ms == RMul(s.v, KMH_IN_MSEC)
                 sq == RMul(ms, ms)
                 hm == RDiv(t.height, CM_IN_M)
             IN  IF hm.n = 0
                 THEN Raise("ZeroDivisionError", <<"float division by zero">>)
                 ELSE Ok(RMul(RMul(RAdd(RMul(CALORIES_WEIGHT_MULTIPLIER, t.weight),
                                        RMul(RMul(RDiv(sq, hm),
                                                  CALORIES_SPEED_HEIGHT_MULTIPLIER),
                                             t.weight)),
                                   t.duration),
                              MIN_IN_H))

\* Swimming.get_spent_calories
Swimming_get_spent_calories(t) ==
    LET s == get_mean_speed(t)
    IN  IF ~s.ok THEN s
        ELSE Ok(RMul(RMul(RMul(RAdd(s.v, SWM_CALORIES_MEAN_SPEED_SHIFT),
                               CALORIES_MULTIPLIER),
                          t.weight),
                     t.duration))

\* Training.get_spent_calories
Training_get_spent_calories(t) ==
    Raise("NotImplementedError", <<"get_spent_calories() must be overridden">>)

\* method resolution of get_spent_calories
get_spent_calories(t) ==
    CASE t.cls = "Running" -> Running_get_spent_calories(t)
      [] t.cls = "SportsWalking" -> SportsWalking_get_spent_calories(t)
      [] t.cls = "Swimming" -> Swimming_get_spent_calories(t)
      [] OTHER -> Training_get_spent_calories(t)

\* Training.show_training_info: the arguments of InfoMessage are evaluated
\* left to right, the first exception raised escapes.
show_training_info(t) ==
    LET s == get_mean_speed(t)
        c == get_spent_calories(t)
    IN  IF ~s.ok THEN s
        ELSE IF ~c.ok THEN c
        ELSE Ok([training_type |-> t.cls,
                 duration |-> t.duration,
                 distance |-> get_distance(t),
                 speed |-> s.v,
                 calories |-> c.v])

(***************************************************************************)
(* Text conversions.                                                       *)
(***************************************************************************)
Digit == <<"0", "1", "2", "3", "4", "5", "6", "7", "8", "9">>

DigitChars == {Digit[i] : i \in 1..10}

DigitVal(c) == (CHOOSE i \in 1..10 : Digit[i] = c) - 1

RECURSIVE IntDigits(_)
IntDigits(m) ==
    IF m < 10 THEN <<Digit[m + 1]>> ELSE IntDigits(m \div 10) \o <<Digit[(m % 10) + 1]>>

\* a format that cuts the digits after the third instead of rounding
Format3f_truncating(v) ==
    LET s == RMul([n |-> Abs(v.n), d |-> v.d], R(1000, 1))
        m == s.n \div s.d
        f == m % 1000
    IN  (IF v.n < 0 THEN <<"-">> ELSE <<>>)
        \o IntDigits(m \div 1000)
        \o <<".", Digit[(f \div 100) + 1], Digit[((f \div 10) % 10) + 1], Digit[(f % 10) + 1]>>

\* format(v, '.3f'): the value rounded to the nearest multiple of 1/1000
\* (an exact tie goes to the even neighbour), a sign for a negative value,
\* the integer digits, a point, exactly three fraction digits.
Format3f(v) ==
    LET s == RMul([n |-> Abs(v.n), d |-> v.d], R(1000, 1))
        q == s.n \div s.d
        r == s.n % s.d
        m == IF r > s.d - r THEN q + 1
             ELSE IF r < s.d - r THEN q
             ELSE IF q % 2 = 0 THEN q ELSE q + 1
        f == m % 1000
    IN  (IF v.n < 0 THEN <<"-">> ELSE <<>>)
        \o IntDigits(m \div 1000)
        \o <<".", Digit[(f \div 100) + 1], Digit[((f \div 10) % 10) + 1], Digit[(f % 10) + 1]>>

\* InfoMessage.get_message
get_message(i) ==
    <<"Tip trenirovki: ", i.training_type, "; ">>
    \o <<"Dlitel'nost': ">> \o Format3f(i.duration) \o <<" ch.", "; ">>
    \o <<"Distantsiya: ">> \o Format3f(i.distance) \o <<" km.", "; ">>
    \o <<"Sr. skorost': ">> \o Format3f(i.speed) \o <<" km/ch", "; ">>
    \o <<"Potracheno kkal: ">> \o Format3f(i.calories) \o <<".">>

RECURSIVE DigitsVal(_)
DigitsVal(s) ==
    IF s = <<>> THEN 0 ELSE DigitsVal(SubSeq(s, 1, Len(s) - 1)) * 10 + DigitVal(s[Len(s)])

RECURSIVE Pow10(_)
Pow10(k) == IF k = 0 THEN 1 ELSE 10 * Pow10(k - 1)

AllDigits(s) == \A k \in 1..Len(s) : s[k] \in DigitChars

\* float(item) of a csv field: an optional sign, decimal digits with at most
\* one point and at least one digit convert to their value; any other text
\* of the modelled alphabet raises ValueError.
Unsigned(s) == IF Len(s) > 0 /\ s[1] \in {"-", "+"} THEN Tail(s) ELSE s

PointAt(s) == {k \in 1..Len(s) : s[k] = "."}

IntPart(s) ==
    IF PointAt(s) = {} THEN s ELSE SubSeq(s, 1, (CHOOSE k \in PointAt(s) : TRUE) - 1)

FracPart(s) ==
    IF PointAt(s) = {} THEN <<>>
    ELSE SubSeq(s, (CHOOSE k \in PointAt(s) : TRUE) + 1, Len(s))

IsFloatText(s) ==
    LET u == Unsigned(s)
    IN  /\ Cardinality(PointAt(u)) <= 1
        /\ AllDigits(IntPart(u))
        /\ AllDigits(FracPart(u))
        /\ Len(IntPart(u)) + Len(FracPart(u)) > 0

float(s) ==
    IF ~IsFloatText(s)
    THEN Raise("ValueError", <<"could not convert string to float: '">> \o s \o <<"'">>)
    ELSE LET u == Unsigned(s)
             mag == Norm(DigitsVal(IntPart(u) \o FracPart(u)), Pow10(Len(FracPart(u))))
         IN  Ok(IF Len(s) > 0 /\ s[1] = "-" THEN [n |-> -mag.n, d |-> mag.d] ELSE mag)

(***************************************************************************)
(* Dispatch.                                                               *)
(***************************************************************************)
\* a table whose SWM entry is the base class
WORKOUT_CODES_with_base_class == [c \in {<<"RUN">>, <<"WLK">>, <<"SWM">>} |->
    CASE c = <<"RUN">> -> "Running"
      [] c = <<"WLK">> -> "SportsWalking"
      [] c = <<"SWM">> -> "Training"]

\* A key is the text of the code, held as one piece.
WORKOUT_CODES == [c \in {<<"RUN">>, <<"WLK">>, <<"SWM">>} |->
    CASE c = <<"RUN">> -> "Running"
      [] c = <<"WLK">> -> "SportsWalking"
      [] c = <<"SWM">> -> "Swimming"]

\* The positional parameters of each class's __init__, after self.
InitParams(cls) ==
    CASE cls = "Running" -> <<"action", "duration", "weight">>
      [] cls = "SportsWalking" -> <<"action", "duration", "weight", "height">>
      [] cls = "Swimming" -> <<"action", "duration", "weight", "length_pool", "count_pool">>
      [] OTHER -> <<"action", "duration", "weight">>

\* a call that drops the arguments after the last parameter
Construct_truncating(cls, d) ==
    IF Len(d) < Len(InitParams(cls))
    THEN Raise("TypeError", <<"__init__() positional arguments mismatch">>)
    ELSE Ok(CASE cls = "SportsWalking" ->
                    [cls |-> cls, action |-> d[1], duration |-> d[2], weight |-> d[3],
                     height |-> d[4]]
              [] cls = "Swimming" ->
                    [cls |-> cls, action |-> d[1], duration |-> d[2], weight |-> d[3],
                     length_pool |-> d[4], count_pool |-> d[5]]
              [] OTHER ->
                    [cls |-> cls, action |-> d[1], duration |-> d[2], weight |-> d[3]])

\* cls(*d): binding the positional arguments fails with TypeError unless
\* there is exactly one per parameter; __init__ then stores each of them.
Construct(cls, d) ==
    IF Len(d) # Len(InitParams(cls))
    THEN Raise("TypeError", <<"__init__() positional arguments mismatch">>)
    ELSE Ok(CASE cls = "SportsWalking" ->
                    [cls |-> cls, action |-> d[1], duration |-> d[2], weight |-> d[3],
                     height |-> d[4]]
              [] cls = "Swimming" ->
                    [cls |-> cls, action |-> d[1], duration |-> d[2], weight |-> d[3],
                     length_pool |-> d[4], count_pool |-> d[5]]
              [] OTHER ->
                    [cls |-> cls, action |-> d[1], duration |-> d[2], weight |-> d[3]])

\* a lookup that falls back to Running for a code absent from the table
read_package_default_kind(wt, d) ==
    LET r == Construct(IF wt \in DOMAIN WORKOUT_CODES THEN WORKOUT_CODES[wt] ELSE "Running", d)
    IN  IF r.ok THEN r ELSE Raise("InvalidInputDataError", r.msg)

\* read_package: KeyError of the lookup and TypeError of the call are both
\* re-raised as InvalidInputDataError(err), whose text is str(err).
read_package(wt, d) ==
    IF wt \notin DOMAIN WORKOUT_CODES
    THEN Raise("InvalidInputDataError", <<"'">> \o wt \o <<"'">>)
    ELSE LET r == Construct(WORKOUT_CODES[wt], d)
         IN  IF r.ok THEN r
             ELSE IF r.exc \in {"KeyError", "TypeError"}
                  THEN Raise("InvalidInputDataError", r.msg)
                  ELSE r

(***************************************************************************)
(* The rows of packages.csv.  A row is a sequence of fields, a field is    *)
(* text.  The rows of the model: for each code, each number of data        *)
(* fields up to MaxFields, the sample values of the kind (padded with "1") *)
(* and the same with one field replaced by "0", by another value or by     *)
(* text that is not a number; and the empty row of a blank line.           *)
(***************************************************************************)
CodeTexts == {<<"RUN">>, <<"WLK">>, <<"SWM">>, <<"XYZ">>}

BaseFields(code) ==
    CASE code = <<"WLK">> ->
            << <<"1", "0", "0", "0", "0">>, <<"1">>, <<"1", "0", "0">>, <<"1", "0", "0">> >>
      [] code = <<"SWM">> ->
            << <<"7", "2", "0">>, <<"1">>, <<"8", "0">>, <<"2", "5">>, <<"4", "0">> >>
      [] OTHER ->
            << <<"1", "5", "0", "0", "0">>, <<"1">>, <<"7", "5">> >>

AltFields(code) ==
    CASE code = <<"WLK">> ->
            << <<"2", "0", "0", "0", "0">>, <<"0", ".", "5">>, <<"5", "0">>, <<"2", "0", "0">> >>
      [] code = <<"SWM">> ->
            << <<"1", "0", "0", "0">>, <<"2">>, <<"7", "5">>, <<"5", "0">>, <<"2", "0">> >>
      [] OTHER ->
            << <<"9", "0", "0", "0">>, <<"0", ".", "5">>, <<"8", "0">> >>

BaseField(code, k) == IF k <= Len(BaseFields(code)) THEN BaseFields(code)[k] ELSE <<"1">>

AltField(code, k) == IF k <= Len(AltFields(code)) THEN AltFields(code)[k] ELSE <<"2">>

Variants == {"zero", "alt", "bad"}

\* the row of code with n data fields, field j replaced (j = 0: none)
MkRow(code, n, j, variant) ==
    <<code>> \o [k \in 1..n |->
        IF k # j THEN BaseField(code, k)
        ELSE CASE variant = "zero" -> <<"0">>
               [] variant = "alt" -> AltField(code, k)
               [] OTHER -> <<"1", "x">>]

AllRows ==
    {MkRow(code, n, 0, "zero") : code \in CodeTexts, n \in 0..MaxFields}
    \cup {MkRow(c[1], c[2], c[3], c[4]) :
            c \in {d \in CodeTexts \X (1..MaxFields) \X (1..MaxFields) \X Variants :
                       d[3] <= d[2]}}
    \cup {<<>>}

\* the rows that files of several rows are made of
BatchRows ==
    { <<>>,
      MkRow(<<"RUN">>, 3, 0, "zero"),
      MkRow(<<"SWM">>, 5, 0, "zero"),
      MkRow(<<"WLK">>, 4, 0, "zero"),
      MkRow(<<"XYZ">>, 3, 0, "zero"),
      MkRow(<<"RUN">>, 4, 0, "zero"),
      MkRow(<<"SWM">>, 4, 0, "zero"),
      MkRow(<<"RUN">>, 3, 3, "bad"),
      MkRow(<<"RUN">>, 3, 2, "zero"),
      MkRow(<<"WLK">>, 4, 4, "zero") }

RECURSIVE FilesOf(_, _)
FilesOf(rows, n) ==
    IF n = 0 THEN {<<>>}
    ELSE LET shorter == FilesOf(rows, n - 1)
         IN  shorter \cup {Append(f, r) : f \in {g \in shorter : Len(g) = n - 1}, r \in rows}

Files == FilesOf(BatchRows, MaxRows) \cup {<<r>> : r \in AllRows}

(***************************************************************************)
(* The driver: the loop of the __main__ block over the rows of the file.   *)
(***************************************************************************)
ReportLine(i) == [type |-> "report", text |-> get_message(i), exc |-> "none"]

ErrorLine(e) ==
    [type |-> "error", text |-> <<"Nepravil'nye vkhodnye dannye: ">> \o e.msg, exc |-> e.exc]

\* an except clause without ValueError
Caught_without_ValueError == {"InvalidInputDataError"}

\* the except clause of the loop body
Caught == {"InvalidInputDataError", "ValueError"}

\* an exception e leaves the try block of the loop body: it is printed and
\* the loop goes on, or it is not caught and ends the program
Propagate(e) ==
    IF e.exc \in Caught
    THEN /\ out' = Append(out, ErrorLine(e))
         /\ idx' = idx + 1
         /\ pc' = "loop"
         /\ exc' = exc
    ELSE /\ pc' = "crashed"
         /\ exc' = e.exc
         /\ UNCHANGED <<out, idx>>

Init ==
    /\ packages \in Files
    /\ idx = 1
    /\ pc = "loop"
    /\ workout_type = <<>>
    /\ data = <<>>
    /\ args = <<>>
    /\ training = None
    /\ info = None
    /\ out = <<>>
    /\ exc = "none"

\* for row in packages: workout_type, *data = row   (outside the try block)
NextRow ==
    /\ pc = "loop"
    /\ idx <= Len(packages)
    /\ IF Len(packages[idx]) = 0
       THEN /\ pc' = "crashed"
            /\ exc' = "ValueError"
            /\ UNCHANGED <<workout_type, data>>
       ELSE /\ workout_type' = Head(packages[idx])
            /\ data' = Tail(packages[idx])
            /\ pc' = "convert"
            /\ exc' = exc
    /\ args' = <<>>
    /\ training' = None
    /\ info' = None
    /\ UNCHANGED <<packages, idx, out>>

\* the file is exhausted
EndOfInput ==
    /\ pc = "loop"
    /\ idx > Len(packages)
    /\ pc' = "done"
    /\ UNCHANGED <<packages, idx, workout_type, data, args, training, info, out, exc>>

\* [float(item) for item in data]: the first field that does not convert
\* raises ValueError
ConvertFloats ==
    /\ pc = "convert"
    /\ LET bad == {k \in 1..Len(data) : ~float(data[k]).ok}
       IN  IF bad = {}
           THEN /\ args' = [k \in 1..Len(data) |-> float(data[k]).v]
                /\ pc' = "read_package"
                /\ UNCHANGED <<idx, out, exc>>
           ELSE /\ Propagate(float(data[CHOOSE k \in bad : \A m \in bad : k <= m]))
                /\ args' = args
    /\ UNCHANGED <<packages, workout_type, data, training, info>>

\* read_package(workout_type, [...])
ReadPackage ==
    /\ pc = "read_package"
    /\ LET r == read_package(workout_type, args)
       IN  IF r.ok
           THEN /\ training' = r.v
                /\ pc' = "show"
                /\ UNCHANGED <<idx, out, exc>>
           ELSE /\ Propagate(r)
                /\ training' = training
    /\ UNCHANGED <<packages, workout_type, data, args, info>>

\* main: training.show_training_info()
ShowTrainingInfo ==
    /\ pc = "show"
    /\ LET r == show_training_info(training)
       IN  IF r.ok
           THEN /\ info' = r.v
                /\ pc' = "print"
                /\ UNCHANGED <<idx, out, exc>>
           ELSE /\ Propagate(r)
                /\ info' = info
    /\ UNCHANGED <<packages, workout_type, data, args, training>>

\* main: print(... .get_message())
PrintMessage ==
    /\ pc = "print"
    /\ out' = Append(out, ReportLine(info))
    /\ idx' = idx + 1
    /\ pc' = "loop"
    /\ UNCHANGED <<packages, workout_type, data, args, training, info, exc>>

Next ==
    \/ NextRow
    \/ EndOfInput
    \/ ConvertFloats
    \/ ReadPackage
    \/ ShowTrainingInfo
    \/ PrintMessage

Spec == Init /\ [][Next]_vars

TypeOK ==
    /\ pc \in {"loop", "convert", "read_package", "show", "print", "done", "crashed"}
    /\ idx \in 1..(Len(packages) + 1)
    /\ Len(out) = idx - 1

(***************************************************************************)
(* Vocabulary of the properties.                                           *)
(***************************************************************************)
KnownCodes == {<<"RUN">>, <<"WLK">>, <<"SWM">>}

KindOfCode(code) ==
    CASE code = <<"RUN">> -> "Running"
      [] code = <<"WLK">> -> "SportsWalking"
      [] code = <<"SWM">> -> "Swimming"
      [] OTHER -> "none"

RequiredArity(code) ==
    CASE code = <<"RUN">> -> 3
      [] code = <<"WLK">> -> 4
      [] code = <<"SWM">> -> 5
      [] OTHER -> -1

StepLength(kind) == IF kind = "Swimming" THEN R(138, 100) ELSE R(65, 100)

\* the rows whose processing is over: row i printed line out[i]
Completed == 1..Len(out)

\* a row with a code field whose data fields are all numbers
Numeric(row) == Len(row) > 0 /\ \A k \in 2..Len(row) : IsFloatText(row[k])

UnknownKindRow(row) == Numeric(row) /\ Head(row) \notin KnownCodes

WrongArityRow(row) ==
    Numeric(row) /\ Head(row) \in KnownCodes /\ Len(row) - 1 # RequiredArity(Head(row))

RightArityRow(row) ==
    Numeric(row) /\ Head(row) \in KnownCodes /\ Len(row) - 1 = RequiredArity(Head(row))

\* a row that fails with UnknownKind or MalformedSample
FailingRow(row) ==
    /\ Len(row) > 0
    /\ \/ Head(row) \notin KnownCodes
       \/ Len(row) - 1 # RequiredArity(Head(row))
       \/ \E k \in 2..Len(row) : ~IsFloatText(row[k])

\* a sample of the data model: right arity, positive duration and, for
\* walking, positive height
ValidRow(row) ==
    /\ RightArityRow(row)
    /\ float(row[3]).v.n > 0
    /\ Head(row) = <<"WLK">> => float(row[5]).v.n > 0

Contains(text, sub) ==
    \E k \in 0..(Len(text) - Len(sub)) : SubSeq(text, k + 1, k + Len(sub)) = sub

\* the positional arguments an object was built from
FieldsOf(t) ==
    CASE t.cls = "SportsWalking" -> <<t.action, t.duration, t.weight, t.height>>
      [] t.cls = "Swimming" -> <<t.action, t.duration, t.weight, t.length_pool, t.count_pool>>
      [] OTHER -> <<t.action, t.duration, t.weight>>

RunSample == MkRow(<<"RUN">>, 3, 0, "zero")

SwmSample == MkRow(<<"SWM">>, 5, 0, "zero")

(***************************************************************************)
(* Properties.                                                             *)
(***************************************************************************)

\* C1: a row whose code is none of RUN, WLK, SWM, whatever its numeric
\* parameter list, ends read_package with InvalidInputDataError: the row's
\* line is the error line of that exception, no training object is ever
\* returned for it and no other exception ends the program on it.
C1_UnknownCodeRaisesDomainError ==
    /\ \A i \in Completed :
          UnknownKindRow(packages[i]) =>
              out[i].type = "error" /\ out[i].exc = "InvalidInputDataError"
    /\ pc \in {"show", "print"} => workout_type \in KnownCodes
    /\ (pc = "crashed" /\ Len(packages[idx]) > 0) => Head(packages[idx]) \in KnownCodes
    /\ (pc \in {"convert", "read_package"} /\ workout_type \notin KnownCodes)
          => training = None

C1_Witness ==
    \E i \in Completed :
        /\ UnknownKindRow(packages[i])
        /\ Len(packages[i]) = 4
        /\ out[i].exc = "InvalidInputDataError"

\* C2: for a known code, read_package returns an object exactly when the
\* parameter list has the kind's arity (3 for RUN, 4 for WLK, 5 for SWM);
\* any other length ends with InvalidInputDataError, and a returned object
\* holds exactly the given parameters, none dropped and none defaulted.
C2_ArityMismatchRaisesDomainError ==
    /\ \A i \in Completed :
          /\ WrongArityRow(packages[i]) =>
                out[i].type = "error" /\ out[i].exc = "InvalidInputDataError"
          /\ RightArityRow(packages[i]) => out[i].type = "report"
    /\ pc \in {"show", "print"} =>
          /\ Len(args) = RequiredArity(workout_type)
          /\ FieldsOf(training) = args
    /\ (pc = "crashed" /\ Len(packages[idx]) > 0) => RightArityRow(packages[idx])
    /\ (pc \in {"convert", "read_package"}) => training = None

C2_Witness ==
    /\ \E i \in Completed :
          /\ packages[i] = MkRow(<<"RUN">>, 4, 0, "zero")
          /\ out[i].exc = "InvalidInputDataError"
    /\ \E i \in Completed :
          /\ packages[i] = RunSample
          /\ out[i].type = "report"

\* C3: in batch mode a row that fails with an unknown code, a wrong field
\* count or a field that is not a number gets exactly one line, an error
\* line, and no report line; it never ends the program, so the rows after
\* it are processed and every valid row among them gets its report line.
C3_FailingRowReportedAndSkipped ==
    /\ Len(out) = idx - 1
    /\ \A i \in Completed :
          /\ FailingRow(packages[i]) =>
                /\ out[i].type = "error"
                /\ out[i].text[1] = "Nepravil'nye vkhodnye dannye: "
          /\ ValidRow(packages[i]) =>
                /\ out[i].type = "report"
                /\ out[i].text[2] = KindOfCode(Head(packages[i]))
    /\ pc \in {"show", "print", "crashed"} => ~FailingRow(packages[idx])

C3_Witness ==
    \E i \in Completed, j \in Completed :
        /\ i < j
        /\ FailingRow(packages[i])
        /\ out[i].type = "error"
        /\ ValidRow(packages[j])
        /\ out[j].type = "report"

\* the text of a number with exactly three digits after the point
IsFixed3(s) ==
    LET u == IF Len(s) > 0 /\ s[1] = "-" THEN Tail(s) ELSE s
    IN  /\ Len(u) >= 5
        /\ u[Len(u) - 3] = "."
        /\ \A k \in 1..Len(u) : k # Len(u) - 3 => u[k] \in DigitChars

\* the place of a piece in a text, 0 when it is absent
PlaceOf(text, piece) ==
    IF \E k \in 1..Len(text) : text[k] = piece
    THEN CHOOSE k \in 1..Len(text) : text[k] = piece /\ \A m \in 1..(k - 1) : text[m] # piece
    ELSE 0

\* the shape of the report line: kind, duration, distance, speed, calories
\* with the template's labels and separators, the distance followed by the
\* unit piece km, and four numbers of three decimals each
HasShape(text, km) ==
    LET p1 == PlaceOf(text, " ch.")
        p2 == PlaceOf(text, km)
        p3 == PlaceOf(text, " km/ch")
    IN  /\ 0 < p1 /\ p1 < p2 /\ p2 < p3 /\ p3 + 3 < Len(text)
        /\ text[1] = "Tip trenirovki: "
        /\ text[2] \in {"Running", "SportsWalking", "Swimming"}
        /\ text[3] = "; "
        /\ text[4] = "Dlitel'nost': "
        /\ IsFixed3(SubSeq(text, 5, p1 - 1))
        /\ text[p1 + 1] = "; "
        /\ text[p1 + 2] = "Distantsiya: "
        /\ IsFixed3(SubSeq(text, p1 + 3, p2 - 1))
        /\ text[p2 + 1] = "; "
        /\ text[p2 + 2] = "Sr. skorost': "
        /\ IsFixed3(SubSeq(text, p2 + 3, p3 - 1))
        /\ text[p3 + 1] = "; "
        /\ text[p3 + 2] = "Potracheno kkal: "
        /\ IsFixed3(SubSeq(text, p3 + 3, Len(text) - 1))
        /\ text[Len(text)] = "."

\* C4: every report line has the exact shape of the template of the
\* specification: kind, duration, distance, speed, calories in that order,
\* the template's labels and separators with the distance followed by
\* " km; " (no point after the unit), and four numbers of exactly three
\* decimals.
C4_ReportLineHasTemplateShape ==
    \A i \in Completed : out[i].type = "report" => HasShape(out[i].text, " km")

\* C5 as stated: the SWM sample (720, 1, 80, 25, 40) reports the distance
\* 720 * 1.38 / 1000 formatted as 0.993, the speed 1.0 formatted inside
\* "Sr. skorost': 1.000 km/ch", and the calories 336.000.
C5_SwmSampleDistance0993 ==
    \A i \in Completed :
        packages[i] = SwmSample =>
            /\ Contains(out[i].text, <<"Distantsiya: ", "0", ".", "9", "9", "3">>)
            /\ Contains(out[i].text, <<"Sr. skorost': ", "1", ".", "0", "0", "0", " km/ch">>)
            /\ Contains(out[i].text, <<"Potracheno kkal: ", "3", "3", "6", ".", "0", "0", "0", ".">>)

\* C5 amended: the SWM sample (720, 1, 80, 25, 40) has the distance
\* 720 * 1.38 / 1000 = 0.9936, which the report line shows as 0.994, the
\* speed 25 * 40 / 1000 / 1 = 1.0 shown in "Sr. skorost': 1.000 km/ch", and
\* the calories (1.0 + 1.1) * 2 * 80 * 1 shown as 336.000.
C5_SwmSampleReport ==
    /\ (pc = "print" /\ packages[idx] = SwmSample) =>
          /\ info.distance.n * 100000 = 720 * 138 * info.distance.d
          /\ info.speed.n * 1000 = 25 * 40 * info.speed.d
          /\ info.calories.n * 10 = 21 * 2 * 80 * info.calories.d
    /\ \A i \in Completed :
          packages[i] = SwmSample =>
              /\ Contains(out[i].text, <<"Distantsiya: ", "0", ".", "9", "9", "4">>)
              /\ Contains(out[i].text, <<"Sr. skorost': ", "1", ".", "0", "0", "0", " km/ch">>)
              /\ Contains(out[i].text,
                          <<"Potracheno kkal: ", "3", "3", "6", ".", "0", "0", "0", ".">>)

C5_Witness ==
    \E i \in Completed : packages[i] = SwmSample /\ out[i].type = "report"

\* C6 as stated: the RUN sample (15000, 1, 75) has distance 9.75, mean
\* speed 9.75 and calories of about 797.33 (within 0.01).
C6_RunSampleCalories79733 ==
    (pc = "print" /\ packages[idx] = RunSample) =>
        /\ info.distance = R(975, 100)
        /\ info.speed = R(975, 100)
        /\ RLess(R(79732, 100), info.calories)
        /\ RLess(info.calories, R(79734, 100))

\* C6 amended: the RUN sample (15000, 1, 75) has distance
\* 15000 * 0.65 / 1000 = 9.75, mean speed 9.75 / 1 = 9.75 and calories
\* (18 * 9.75 + 1.79) * 75 / 1000 * 1 * 60 = 797.805.
C6_RunSampleReport ==
    (pc = "print" /\ packages[idx] = RunSample) =>
        /\ info.distance.n * 100 = 975 * info.distance.d
        /\ info.speed.n * 100 = 975 * info.speed.d
        /\ info.calories.n * 1000 = 797805 * info.calories.d

C6_Witness ==
    pc = "print" /\ packages[idx] = RunSample /\ info.training_type = "Running"

\* action counts and other field values that samples are compared over
ActionCounts == {R(0, 1), R(720, 1), R(1000, 1), R(15000, 1)}

OtherValues == {R(0, 1), R(1, 2), R(3, 1), R(80, 1)}

\* C7: the mean speed of a Swimming sample is
\* pool_length * lap_count / 1000 / duration and does not depend on the
\* action count: a sample that differs only in the action count has the
\* same mean speed and the same calories, and a different distance.
C7_SwimmingSpeedIgnoresActionCount ==
    (pc \in {"show", "print"} /\ training.cls = "Swimming") =>
        /\ pc = "print" =>
              RMul(RMul(info.speed, R(1000, 1)), training.duration)
                  = RMul(training.length_pool, training.count_pool)
        /\ \A a \in ActionCounts :
              LET other == [training EXCEPT !.action = a]
              IN  /\ get_mean_speed(other) = get_mean_speed(training)
                  /\ get_spent_calories(other) = get_spent_calories(training)
                  /\ a # training.action => get_distance(other) # get_distance(training)
        /\ pc = "print" =>
              \A a \in ActionCounts :
                  LET r == show_training_info([training EXCEPT !.action = a])
                  IN  r.ok /\ r.v.speed = info.speed /\ r.v.calories = info.calories

C7_Witness ==
    /\ pc = "print"
    /\ training.cls = "Swimming"
    /\ training.action = R(1000, 1)
    /\ info.speed = R(1, 1)

\* C8: the reported distance is action_count * step_length / 1000 with
\* step length 0.65 for Running and SportsWalking and 1.38 for Swimming,
\* and it depends on no field but the action count.
C8_DistanceFromActionCountOnly ==
    pc = "print" =>
        /\ RMul(info.distance, R(1000, 1))
              = RMul(training.action, StepLength(info.training_type))
        /\ \A x \in OtherValues, y \in OtherValues :
              LET other ==
                    CASE training.cls = "SportsWalking" ->
                            [training EXCEPT !.duration = x, !.weight = y, !.height = x]
                      [] training.cls = "Swimming" ->
                            [training EXCEPT !.duration = y, !.weight = x,
                                             !.length_pool = x, !.count_pool = y]
                      [] OTHER -> [training EXCEPT !.duration = x, !.weight = y]
              IN  get_distance(other) = info.distance

C8_Witness ==
    /\ pc = "print"
    /\ training.cls = "Swimming"
    /\ training.action = R(720, 1)
    /\ info.distance = R(9936, 10000)

\* C9: for every file the loop reaches the end of the input having printed
\* exactly one line per row, an empty row and a row with duration or
\* height 0 included: the program never stops before the end.
C9_EveryRowGetsOneLine ==
    /\ pc # "crashed"
    /\ pc = "done" => Len(out) = Len(packages)

\* C10: an object returned by read_package is of the concrete kind mapped
\* from its code (RUN Running, WLK SportsWalking, SWM Swimming), never the
\* base Training; the base failure of get_spent_calories is never reached
\* and the kind label of the report is the name of the mapped kind.
C10_ReturnedObjectIsConcreteKind ==
    /\ training # None =>
          /\ training.cls \in {"Running", "SportsWalking", "Swimming"}
          /\ training.cls = KindOfCode(workout_type)
    /\ exc # "NotImplementedError"
    /\ pc = "print" => info.training_type = KindOfCode(workout_type)
    /\ \A i \in Completed :
          out[i].type = "report" => out[i].text[2] = KindOfCode(Head(packages[i]))

C10_Witness ==
    \E i \in Completed :
        /\ Head(packages[i]) = <<"WLK">>
        /\ out[i].type = "report"
        /\ out[i].text[2] = "SportsWalking"

====
